---- MODULE Spec2Model ----
(***************************************************************************)
(* One request served by ChatHandler.HandleChat (handlers/chat.go): the    *)
(* handler task, the receive goroutine it starts, the single-slot          *)
(* completion channel between them, the upstream completion stream and     *)
(* the request context.                                                    *)
(*                                                                         *)
(* events is the sequence of chunks handed to writeSSEMessage (the events  *)
(* emitted); body is what fmt.Fprintf actually put on the response writer. *)
(* The two differ only once the client connection is broken.  json.Marshal *)
(* of a struct of three strings cannot fail, so that branch of             *)
(* writeSSEMessage has no outcome to model.                                *)
(***************************************************************************)
EXTENDS Integers, Sequences, FiniteSets, TLC

\* ---------------------------------------------------------------- bounds
MaxPromptChars == 3
MaxRecv == 3
\* concurrent clients of the rate limiter, and tryConsume calls in a run
NCallers == 2
MaxCalls == 4
\* the clock: ticks per second and the last tick
TicksPerSec == 2
MaxTime == 5
\* requestsPerSecond ranges over n / RateDen, from 0 to MaxRate
RateDen == 2
MaxRate == 2

\* ------------------------------------------------------- program constants
\* the limiter is also run with a float of ScaledMantBits significant bits in
\* place of float64's MantBits, on token counts kept in units of
\* 1/2^(ScaledMantBits+1) token, so that sums below one token are rounded
ScaledMantBits == 3
\* and with a whole rate of 1 to MaxScaledRate tokens per second
MaxScaledRate == 3

\* calls made on a responseWriter, and on a completion stream, on their own
MaxRWCalls == 4
MaxStreamCalls == 3

MaxPromptLength == 2
ErrChCap == 1
\* ratelimit.go:12-14: tokens, capacity and refillRate are float64
MantBits == 53

\* ------------------------------------------------------------ input sets
\* one-byte letter, one-byte white space, two-byte letter
Chars == {"a", " ", "e2"}
Whitespace == {" "}
FragTexts == {"", "a", "b"}

Width(c) == IF c = "e2" THEN 2 ELSE 1

SeqsUpTo(S, n) == UNION {[1..k -> S] : k \in 0..n}

Prompts == SeqsUpTo(Chars, MaxPromptChars)

Bodies == {[ok |-> FALSE, prompt |-> <<>>]} \cup {[ok |-> TRUE, prompt |-> p] : p \in Prompts}

Callers == 1..NCallers
RateNums == 0..(MaxRate * RateDen)

\* Token counts are kept in units of 1/(TicksPerSec*RateDen) token, which
\* makes the float64 arithmetic of the limiter exact integer arithmetic:
\* a rate of n/RateDen tokens per second is n units per tick.
One == TicksPerSec * RateDen

RECURSIVE BitLen(_)
\* number of binary digits of a natural number
BitLen(x) == IF x = 0 THEN 0 ELSE 1 + BitLen(x \div 2)

RECURSIVE Pow2(_)
Pow2(n) == IF n = 0 THEN 1 ELSE 2 * Pow2(n - 1)

\* the spacing of the floats of mantissa width m around x
Ulp(m, x) == IF BitLen(x) <= m THEN 1 ELSE Pow2(BitLen(x) - m)

\* the float of mantissa width m nearest to x, ties to even: the rounding
\* of every float64 operation (ratelimit.go:33-34)
Fl(m, x) ==
    LET u == Ulp(m, x)
        lo == (x \div u) * u
        r == x - lo
    IN  IF 2 * r < u THEN lo
        ELSE IF 2 * r > u THEN lo + u
        ELSE IF (lo \div u) % 2 = 0 THEN lo ELSE lo + u

\* the arithmetic of the limiter: mantissa width, units per token, and
\* whether the build fuses x*y + z into one rounding, as the Go
\* specification allows; float64 on the exactly representable counts of
\* Spec and SpecRL rounds nothing
Float64 == [mant |-> MantBits, one |-> One, fma |-> FALSE]
ScaledFloats ==
    {[mant |-> ScaledMantBits, one |-> Pow2(ScaledMantBits + 1), fma |-> b] : b \in BOOLEAN}

\* middleware.min
min(a, b) == IF a < b THEN a ELSE b

\* ratelimit.go:33-34: timePassed := now.Sub(rl.lastTimestamp).Seconds();
\* min(rl.capacity, rl.tokens + timePassed*rl.refillRate)
Refill(f, tok, cap, rate, dt) ==
    min(cap, IF f.fma THEN Fl(f.mant, tok + Fl(f.mant, dt) * rate)
             ELSE Fl(f.mant, tok + Fl(f.mant, Fl(f.mant, dt) * rate)))

\* middleware.NewRateLimiter: tokens = capacity = refillRate = requestsPerSecond
NewRateLimiter(n, t) ==
    [tokens |-> n * TicksPerSec, capacity |-> n * TicksPerSec, refillRate |-> n,
     lastTimestamp |-> t]

\* uuid.New().String()
NewUUID == "uuid-1"
RequestIDs == {"", "test-id"}

\* main.go:85-89: the routes of the router; a request that matches none of
\* them passes through no middleware
Routes == {"POST /chat", "OPTIONS /chat", "GET /health"}

\* ------------------------------------------------------- pure functions
RECURSIVE ByteLen(_)
\* len(reqBody.Prompt): Go's len of a string counts bytes
ByteLen(p) == IF p = <<>> THEN 0 ELSE Width(Head(p)) + ByteLen(Tail(p))

RECURSIVE TrimLeft(_)
TrimLeft(p) == IF p # <<>> /\ Head(p) \in Whitespace THEN TrimLeft(Tail(p)) ELSE p

RECURSIVE TrimRight(_)
TrimRight(p) ==
    IF p # <<>> /\ p[Len(p)] \in Whitespace THEN TrimRight(SubSeq(p, 1, Len(p) - 1)) ELSE p

\* strings.TrimSpace
TrimSpace(p) == TrimRight(TrimLeft(p))

Nil == "nil"
EmptyMsg == "prompt cannot be empty"
ExceedsMsg(n) == "prompt exceeds maximum length of " \o ToString(n) \o " characters"

validateRequest_OffByOne(p) ==
    IF TrimSpace(p) = <<>> THEN EmptyMsg
    ELSE IF ByteLen(p) >= MaxPromptLength THEN ExceedsMsg(MaxPromptLength)
    ELSE Nil

validateRequest_NoMax(p) ==
    IF TrimSpace(p) = <<>> THEN EmptyMsg ELSE Nil

validateRequest(p) ==
    IF TrimSpace(p) = <<>> THEN EmptyMsg
    ELSE IF ByteLen(p) > MaxPromptLength THEN ExceedsMsg(MaxPromptLength)
    ELSE Nil

\* ------------------------------------------------------------- state
VARIABLES
    flusherOK,     \* the response writer implements http.Flusher
    reqBody,       \* the request body: malformed, or JSON carrying a prompt
    hpc,           \* position of HandleChat
    hchunk,        \* chunk HandleChat is about to write
    valErr,        \* result of validateRequest, "unset" before the call
    selCase,       \* case taken by the select: "none", "ctx", "errCh"
    selErr,        \* the error received from errCh, "none" if none
    createCalls,   \* calls of CreateChatCompletionStream
    streamOpened,  \* CreateChatCompletionStream returned a stream
    closeCount,    \* calls of stream.Close
    gpc,           \* position of the receive goroutine
    gchunk,        \* chunk the goroutine is about to write
    gerr,          \* error the goroutine is about to send
    errCh,         \* the buffered completion channel
    received,      \* texts of the fragments Recv returned, in order
    recvEnd,       \* the error Recv returned, "none" before
    recvCalls,     \* calls of stream.Recv
    events,        \* chunks handed to writeSSEMessage, in order
    body,          \* chunks written to the response writer, in order
    flushed,       \* Flush calls that reached the transport under the response writer
    ctxCancelled,  \* r.Context().Done() is closed
    connBroken,    \* writes to the client connection fail
    entry,         \* "router": through main.go's middleware chain; "direct": HandleChat called as in chat_test.go
    reqHeaderID,   \* the caller's X-Request-ID header, "" when absent
    requestID,     \* the value under RequestIDKey in the request context
    respHeaderID,  \* the X-Request-ID response header
    respStatus,    \* status code of the response, 0 while no header is written
    contentType,   \* Content-Type response header
    respErrType,   \* error_type of the JSON error body, "" when none
    corsHeaders,   \* the Access-Control-* response headers are set
    plainBody,     \* the plain (non-SSE, non-JSON) response body, "" when none
    route,         \* method and path of the request
    createRes,     \* the call of CreateChatCompletionStream: whether its context was
                   \* already cancelled and the error it returned, "none" before the call
    selReady,      \* what the select found when it fired: context done, channel content
    tokens,        \* RateLimiter.tokens, in token units
    capacity,      \* RateLimiter.capacity, in token units
    refillRate,    \* RateLimiter.refillRate, in token units per tick
    lastTimestamp, \* RateLimiter.lastTimestamp, in ticks
    mu,            \* RateLimiter.mu: 0 when free, else the caller holding it
    now,           \* the clock, in ticks
    rlpc,          \* position of each caller of the RateLimit middleware
    rlNow,         \* the local `now` of each caller's tryConsume
    rlRes,         \* the result of each caller's last tryConsume
    rlPre,         \* the limiter's fields when the caller took the lock
    rlCode,        \* status code each caller last got from RateLimit
    rlCalls,       \* tryConsume calls started
    flt,           \* the float arithmetic of the limiter and the unit of its counts
    rw,            \* a middleware.responseWriter: its status and written fields
    rwUnder,       \* the calls it forwarded to the ResponseWriter it wraps
    rwCalls,       \* the calls made on it, in order
    stream,        \* a completion stream: its implementation and its fields
    stCalls,       \* the calls made on it, in order, with result and state left
    hist           \* the decided tryConsume calls, in order: time, tokens found after the
                   \* refill, result, and the tokens and timestamp found at the Lock

reqVars == <<flusherOK, reqBody, entry, reqHeaderID, route>>
hVars == <<hpc, hchunk, valErr, selCase, selErr, selReady>>
streamVars == <<createCalls, streamOpened, closeCount, createRes>>
gVars == <<gpc, gchunk, gerr>>
recvVars == <<received, recvEnd, recvCalls>>
outVars == <<events, body, flushed>>
envVars == <<ctxCancelled, connBroken>>
idVars == <<requestID, respHeaderID>>
hdrVars == <<corsHeaders, plainBody>>
respVars == <<respStatus, contentType, respErrType, hdrVars>>
bucketVars == <<tokens, capacity, refillRate, lastTimestamp, flt>>
rlVars == <<bucketVars, mu, now, rlpc, rlNow, rlRes, rlPre, rlCode, rlCalls, hist>>
rwVars == <<rw, rwUnder, rwCalls>>
stVars == <<stream, stCalls>>
unitVars == <<rwVars, stVars>>
vars == <<reqVars, hVars, streamVars, gVars, recvVars, outVars, envVars, errCh,
          idVars, respVars, rlVars, unitVars>>

NotCreated == [ctxDone |-> FALSE, err |-> "none"]
NotSelected == [ctx |-> FALSE, ch |-> <<>>]

NoChunk == [type |-> "none", content |-> "", request_id |-> ""]

Chunk_FromHeader(t, c) == [type |-> t, content |-> c, request_id |-> reqHeaderID]

\* models.ChatResponse; every chunk is built with the requestID that
\* HandleChat read from the request context (chat.go:54)
Chunk(t, c) == [type |-> t, content |-> c, request_id |-> requestID]

UnsupportedMsg == "Streaming unsupported by client"
InvalidPayloadMsg == "Invalid request payload"
CreateFailedMsg == "Failed to create chat completion stream"
DisconnectedMsg == "Client disconnected"

\* the errors of the provider, as CreateChatCompletionStream or Recv return
\* them; their text is the underlying cause
UpstreamErrs == {"status code: 401", "connection reset"}

\* errors.Is(err, context.Canceled)
IsCanceled(err) == err = "Canceled"

EmitsContent_Always(content) == TRUE

\* chat.go:129 - an empty delta is skipped
EmitsContent(content) == content # ""

HdrCall(code) == [op |-> "WriteHeader", code |-> code]
WriteCall == [op |-> "Write", code |-> 0]

\* middleware.go:70-74: the responseWriter Logger builds
LoggerWriter == [status |-> 200, written |-> FALSE]

\* the stream implementations: main.go:25-45, chat_test.go:24-61,
\* main_test.go:21-31
StreamImpls == {"streamWrapper", "handlers.mockStream", "main.mockStream"}
NewStream(impl, err) == [impl |-> impl, closed |-> FALSE, err |-> err, ctxDone |-> FALSE]

\* no responseWriter and no stream is exercised on its own
IdleUnits ==
    /\ rw = LoggerWriter
    /\ rwUnder = <<>>
    /\ rwCalls = <<>>
    /\ stream = NewStream("streamWrapper", "nil")
    /\ stCalls = <<>>

\* no tryConsume call is in progress
InitCallers ==
    /\ mu = 0
    /\ now = 0
    /\ rlpc = [c \in Callers |-> "idle"]
    /\ rlNow = [c \in Callers |-> 0]
    /\ rlRes = [c \in Callers |-> FALSE]
    /\ rlPre = [c \in Callers |-> NewRateLimiter(0, 0)]
    /\ rlCode = [c \in Callers |-> 0]
    /\ rlCalls = 0
    /\ hist = <<>>

\* The request arrives either through the middleware chain of main.go:78-85
\* or, as in chat_test.go:156-176, at HandleChat directly with a request id in
\* its context.  The limiter of main.go:75 allows one request per second; at
\* the arrival its bucket is full or was drained by earlier requests.
Init ==
    /\ IdleUnits
    /\ flusherOK \in BOOLEAN
    /\ reqBody \in Bodies
    /\ entry \in {"direct", "router"}
    /\ InitCallers
    /\ LET rl == NewRateLimiter(RateDen, 0) IN
         /\ capacity = rl.capacity
         /\ refillRate = rl.refillRate
         /\ lastTimestamp = rl.lastTimestamp
         /\ flt = Float64
         /\ IF entry = "router"
            THEN tokens \in {rl.tokens - k * One : k \in 0..(rl.tokens \div One)}
            ELSE tokens = rl.tokens
    /\ IF entry = "router"
       THEN /\ reqHeaderID \in RequestIDs
            /\ route \in Routes
            /\ requestID = ""
            /\ hpc = "logger"
       ELSE /\ reqHeaderID = ""
            /\ route = "POST /chat"
            /\ requestID = "ctx-id"
            /\ hpc = "start"
    /\ respHeaderID = ""
    /\ respStatus = 0
    /\ contentType = ""
    /\ respErrType = ""
    /\ corsHeaders = FALSE
    /\ plainBody = ""
    /\ createRes = NotCreated
    /\ selReady = NotSelected
    /\ hchunk = NoChunk
    /\ valErr = "unset"
    /\ selCase = "none"
    /\ selErr = "none"
    /\ createCalls = 0
    /\ streamOpened = FALSE
    /\ closeCount = 0
    /\ gpc = "none"
    /\ gchunk = NoChunk
    /\ gerr = "none"
    /\ errCh = <<>>
    /\ received = <<>>
    /\ recvEnd = "none"
    /\ recvCalls = 0
    /\ events = <<>>
    /\ body = <<>>
    /\ flushed = 0
    /\ ctxCancelled = FALSE
    /\ connBroken = FALSE

\* an index-out-of-range panic in the receive goroutine ends the process
Alive == gpc # "crashed"

\* ------------------------------------------------------------ HandleChat
IsFlusher_Underlying == flusherOK

\* chat.go:62: w.(http.Flusher).  Behind Logger the writer is the wrapping
\* responseWriter, which has a Flush method whatever it wraps
\* (middleware.go:46-51, 69-79)
IsFlusher == entry = "router" \/ flusherOK

\* chat.go:53-72: the streaming headers are set, then the flushing capability
\* is checked first
HStart ==
    /\ Alive /\ hpc = "start"
    /\ contentType' = "text/event-stream"
    /\ IF IsFlusher
       THEN /\ hpc' = "decode"
            /\ hchunk' = hchunk
       ELSE /\ hpc' = "write"
            /\ hchunk' = Chunk("error", UnsupportedMsg)
    /\ UNCHANGED <<valErr, selCase, selErr, selReady, respStatus, respErrType, hdrVars>>
    /\ UNCHANGED <<reqVars, unitVars, idVars, rlVars, streamVars, gVars, recvVars, outVars, envVars, errCh>>

\* chat.go:74-84: json.NewDecoder(r.Body).Decode(&reqBody)
HDecode ==
    /\ Alive /\ hpc = "decode"
    /\ IF reqBody.ok
       THEN /\ hpc' = "validate"
            /\ hchunk' = hchunk
       ELSE /\ hpc' = "write"
            /\ hchunk' = Chunk("error", InvalidPayloadMsg)
    /\ UNCHANGED <<valErr, selCase, selErr, selReady>>
    /\ UNCHANGED <<reqVars, unitVars, idVars, respVars, rlVars, streamVars, gVars, recvVars, outVars, envVars, errCh>>

\* chat.go:86-95
HValidate ==
    /\ Alive /\ hpc = "validate"
    /\ valErr' = validateRequest(reqBody.prompt)
    /\ IF valErr' = Nil
       THEN /\ hpc' = "create"
            /\ hchunk' = hchunk
       ELSE /\ hpc' = "write"
            /\ hchunk' = Chunk("error", valErr')
    /\ UNCHANGED <<selCase, selErr, selReady>>
    /\ UNCHANGED <<reqVars, unitVars, idVars, respVars, rlVars, streamVars, gVars, recvVars, outVars, envVars, errCh>>

HCreate_NoReturn ==
    /\ Alive /\ hpc = "create"
    /\ createCalls' = createCalls + 1
    /\ UNCHANGED closeCount
    /\ \E err \in {"nil"} \cup UpstreamErrs :
         /\ createRes' = [ctxDone |-> ctxCancelled, err |-> err]
         /\ IF err = "nil"
            THEN /\ streamOpened' = TRUE
                 /\ hpc' = "select"
                 /\ hchunk' = hchunk
                 /\ gpc' = "recv"
            ELSE /\ streamOpened' = FALSE
                 /\ hpc' = "write"
                 /\ hchunk' = Chunk("error", CreateFailedMsg)
                 /\ gpc' = "recv"
    /\ UNCHANGED <<valErr, selCase, selErr, selReady, gchunk, gerr>>
    /\ UNCHANGED <<reqVars, unitVars, idVars, respVars, rlVars, recvVars, outVars, envVars, errCh>>

\* chat.go:106-143: open the stream; on success register the deferred Close,
\* make the channel and start the receive goroutine
HCreate ==
    /\ Alive /\ hpc = "create"
    /\ createCalls' = createCalls + 1
    /\ UNCHANGED closeCount
    /\ \E err \in {"nil"} \cup UpstreamErrs :
         /\ createRes' = [ctxDone |-> ctxCancelled, err |-> err]
         /\ IF err = "nil"
            THEN /\ streamOpened' = TRUE
                 /\ hpc' = "select"
                 /\ hchunk' = hchunk
                 /\ gpc' = "recv"
            ELSE /\ streamOpened' = FALSE
                 /\ hpc' = "write"
                 /\ hchunk' = Chunk("error", CreateFailedMsg)
                 /\ gpc' = gpc
    /\ UNCHANGED <<valErr, selCase, selErr, selReady, gchunk, gerr>>
    /\ UNCHANGED <<reqVars, unitVars, idVars, respVars, rlVars, recvVars, outVars, envVars, errCh>>

\* chat.go:146-154: case <-r.Context().Done()
HSelectCtx ==
    /\ Alive /\ hpc = "select"
    /\ ctxCancelled
    /\ selCase' = "ctx"
    /\ selReady' = [ctx |-> ctxCancelled, ch |-> errCh]
    /\ hchunk' = Chunk("error", DisconnectedMsg)
    /\ hpc' = "write"
    /\ UNCHANGED <<valErr, selErr>>
    /\ UNCHANGED <<reqVars, unitVars, idVars, respVars, rlVars, streamVars, gVars, recvVars, outVars, envVars, errCh>>

HSelectErr_NoEOFCheck ==
    /\ Alive /\ hpc = "select"
    /\ errCh # <<>>
    /\ selCase' = "errCh"
    /\ selReady' = [ctx |-> ctxCancelled, ch |-> errCh]
    /\ selErr' = Head(errCh)
    /\ errCh' = Tail(errCh)
    /\ IF IsCanceled(Head(errCh))
       THEN /\ hpc' = "return"
            /\ hchunk' = hchunk
       ELSE /\ hpc' = "write"
            /\ hchunk' = Chunk("done", "")
    /\ UNCHANGED valErr
    /\ UNCHANGED <<reqVars, unitVars, idVars, respVars, rlVars, streamVars, gVars, recvVars, outVars, envVars>>

HSelectErr_LeakCause ==
    /\ Alive /\ hpc = "select"
    /\ errCh # <<>>
    /\ selCase' = "errCh"
    /\ selReady' = [ctx |-> ctxCancelled, ch |-> errCh]
    /\ selErr' = Head(errCh)
    /\ errCh' = Tail(errCh)
    /\ IF IsCanceled(Head(errCh))
       THEN /\ hpc' = "return"
            /\ hchunk' = hchunk
       ELSE IF Head(errCh) = "EOF"
       THEN /\ hpc' = "write"
            /\ hchunk' = Chunk("done", "")
       ELSE /\ hpc' = "write"
            /\ hchunk' = Chunk("error", Head(errCh))
    /\ UNCHANGED valErr
    /\ UNCHANGED <<reqVars, unitVars, idVars, respVars, rlVars, streamVars, gVars, recvVars, outVars, envVars>>

\* chat.go:155-175: case err := <-errCh
HSelectErr ==
    /\ Alive /\ hpc = "select"
    /\ errCh # <<>>
    /\ selCase' = "errCh"
    /\ selReady' = [ctx |-> ctxCancelled, ch |-> errCh]
    /\ selErr' = Head(errCh)
    /\ errCh' = Tail(errCh)
    /\ IF IsCanceled(Head(errCh))
       THEN /\ hpc' = "return"
            /\ hchunk' = hchunk
       ELSE IF Head(errCh) = "EOF"
       THEN /\ hpc' = "write"
            /\ hchunk' = Chunk("done", "")
       ELSE /\ hpc' = "write"
            /\ hchunk' = Chunk("error", CreateFailedMsg)
    /\ UNCHANGED valErr
    /\ UNCHANGED <<reqVars, unitVars, idVars, respVars, rlVars, streamVars, gVars, recvVars, outVars, envVars>>

\* the first Write sends the header with status 200 (net/http, and
\* middleware.go:31-36 behind Logger)
ImplicitStatus(st) == IF st = 0 THEN 200 ELSE st

\* chat.go:179-188: writeSSEMessage up to fmt.Fprintf; the handler discards
\* the error, and an error skips the Flush
HWrite ==
    /\ Alive /\ hpc = "write"
    /\ events' = Append(events, hchunk)
    /\ IF connBroken
       THEN /\ body' = body
            /\ hpc' = "return"
            /\ respStatus' = respStatus
       ELSE /\ body' = Append(body, hchunk)
            /\ hpc' = "flush"
            /\ respStatus' = ImplicitStatus(respStatus)
    /\ UNCHANGED <<hchunk, valErr, selCase, selErr, selReady, contentType, respErrType, hdrVars, flushed>>
    /\ UNCHANGED <<reqVars, unitVars, idVars, rlVars, streamVars, gVars, recvVars, envVars, errCh>>

\* the Flush of the writer HandleChat holds: the transport's own Flush, or
\* middleware.go:46-51, which forwards to the transport only if it can flush
Flush(n) == IF flusherOK THEN n + 1 ELSE n

\* chat.go:190: flusher.Flush(); with the nil Flusher of chat.go:62-70 the
\* call panics; behind Logger it reaches middleware.go:47-51, a no-op when
\* the wrapped writer cannot flush
HFlush ==
    /\ Alive /\ hpc = "flush"
    /\ hpc' = IF IsFlusher THEN "return" ELSE "panicked"
    /\ flushed' = IF IsFlusher THEN Flush(flushed) ELSE flushed
    /\ UNCHANGED <<hchunk, valErr, selCase, selErr, selReady>>
    /\ UNCHANGED <<reqVars, unitVars, idVars, respVars, rlVars, streamVars, gVars, recvVars, events, body, envVars, errCh>>

HReturn_CloseOnErrChOnly ==
    /\ Alive /\ hpc = "return"
    /\ hpc' = "returned"
    /\ closeCount' = IF streamOpened /\ selCase = "errCh" THEN closeCount + 1 ELSE closeCount
    /\ UNCHANGED <<createCalls, streamOpened, createRes>>
    /\ UNCHANGED <<hchunk, valErr, selCase, selErr, selReady>>
    /\ UNCHANGED <<reqVars, unitVars, idVars, respVars, rlVars, gVars, recvVars, outVars, envVars, errCh>>

\* chat.go:117: return runs the deferred stream.Close() when it was registered
HReturn ==
    /\ Alive /\ hpc = "return"
    /\ hpc' = "returned"
    /\ closeCount' = IF streamOpened THEN closeCount + 1 ELSE closeCount
    /\ UNCHANGED <<createCalls, streamOpened, createRes>>
    /\ UNCHANGED <<hchunk, valErr, selCase, selErr, selReady>>
    /\ UNCHANGED <<reqVars, unitVars, idVars, respVars, rlVars, gVars, recvVars, outVars, envVars, errCh>>

\* ----------------------------------------------------- receive goroutine
\* What stream.Recv may return.  The stream is an interface: the mock of
\* chat_test.go returns context.Canceled once closed or once its context is
\* done, its configured error otherwise, else a fragment; the mock of
\* main_test.go returns a response without choices; the wrapper of main.go
\* forwards the provider stream's fragments, io.EOF and errors.
RecvOutcomes ==
    {[kind |-> "frag", val |-> t] : t \in IF Len(received) < MaxRecv THEN FragTexts ELSE {}}
    \cup {[kind |-> "err", val |-> e] : e \in {"EOF"} \cup UpstreamErrs}
    \cup {[kind |-> "err", val |-> e] : e \in IF ctxCancelled \/ closeCount > 0 THEN {"Canceled"} ELSE {}}
    \cup {[kind |-> "nochoice", val |-> ""]}

GRecv_RetryOnError ==
    /\ Alive /\ gpc = "recv"
    /\ recvCalls' = recvCalls + 1
    /\ \E out \in RecvOutcomes :
         CASE out.kind = "err" ->
                /\ recvEnd' = out.val
                /\ gerr' = out.val
                /\ gpc' = "recv"
                /\ UNCHANGED <<received, gchunk>>
           [] out.kind = "nochoice" ->
                /\ gpc' = "crashed"
                /\ UNCHANGED <<received, recvEnd, gerr, gchunk>>
           [] out.kind = "frag" ->
                /\ received' = Append(received, out.val)
                /\ IF EmitsContent(out.val)
                   THEN /\ gchunk' = Chunk("content", out.val)
                        /\ gpc' = "write"
                   ELSE /\ gchunk' = gchunk
                        /\ gpc' = "recv"
                /\ UNCHANGED <<recvEnd, gerr>>
    /\ UNCHANGED <<reqVars, unitVars, idVars, respVars, rlVars, hVars, streamVars, outVars, envVars, errCh>>

\* chat.go:122-137: one Recv and the inspection of its result
GRecv ==
    /\ Alive /\ gpc = "recv"
    /\ recvCalls' = recvCalls + 1
    /\ \E out \in RecvOutcomes :
         CASE out.kind = "err" ->
                /\ recvEnd' = out.val
                /\ gerr' = out.val
                /\ gpc' = "send"
                /\ UNCHANGED <<received, gchunk>>
           [] out.kind = "nochoice" ->
                /\ gpc' = "crashed"
                /\ UNCHANGED <<received, recvEnd, gerr, gchunk>>
           [] out.kind = "frag" ->
                /\ received' = Append(received, out.val)
                /\ IF EmitsContent(out.val)
                   THEN /\ gchunk' = Chunk("content", out.val)
                        /\ gpc' = "write"
                   ELSE /\ gchunk' = gchunk
                        /\ gpc' = "recv"
                /\ UNCHANGED <<recvEnd, gerr>>
    /\ UNCHANGED <<reqVars, unitVars, idVars, respVars, rlVars, hVars, streamVars, outVars, envVars, errCh>>

\* chat.go:138-141 with chat.go:179-188: a failed write ends the loop
GWrite ==
    /\ Alive /\ gpc = "write"
    /\ events' = Append(events, gchunk)
    /\ IF connBroken
       THEN /\ body' = body
            /\ gerr' = "WriteErr"
            /\ gpc' = "send"
            /\ respStatus' = respStatus
       ELSE /\ body' = Append(body, gchunk)
            /\ gerr' = gerr
            /\ gpc' = "flush"
            /\ respStatus' = ImplicitStatus(respStatus)
    /\ UNCHANGED <<gchunk, contentType, respErrType, hdrVars, flushed>>
    /\ UNCHANGED <<reqVars, unitVars, idVars, rlVars, hVars, streamVars, recvVars, envVars, errCh>>

\* chat.go:190 reached from chat.go:138
GFlush ==
    /\ Alive /\ gpc = "flush"
    /\ gpc' = "recv"
    /\ flushed' = Flush(flushed)
    /\ UNCHANGED <<gchunk, gerr>>
    /\ UNCHANGED <<reqVars, unitVars, idVars, respVars, rlVars, hVars, streamVars, recvVars, events, body, envVars, errCh>>

GSend_KeepLooping ==
    /\ Alive /\ gpc = "send"
    /\ Len(errCh) < ErrChCap
    /\ errCh' = Append(errCh, gerr)
    /\ gpc' = "recv"
    /\ UNCHANGED <<gchunk, gerr>>
    /\ UNCHANGED <<reqVars, unitVars, idVars, respVars, rlVars, hVars, streamVars, recvVars, outVars, envVars>>

GSend_Unbuffered ==
    /\ Alive /\ gpc = "send"
    /\ Len(errCh) < ErrChCap /\ hpc = "select"
    /\ errCh' = Append(errCh, gerr)
    /\ gpc' = "exited"
    /\ UNCHANGED <<gchunk, gerr>>
    /\ UNCHANGED <<reqVars, unitVars, idVars, respVars, rlVars, hVars, streamVars, recvVars, outVars, envVars>>

\* chat.go:124 and chat.go:139: errCh <- err, then return; the send blocks
\* while the channel is full
GSend ==
    /\ Alive /\ gpc = "send"
    /\ Len(errCh) < ErrChCap
    /\ errCh' = Append(errCh, gerr)
    /\ gpc' = "exited"
    /\ UNCHANGED <<gchunk, gerr>>
    /\ UNCHANGED <<reqVars, unitVars, idVars, respVars, rlVars, hVars, streamVars, recvVars, outVars, envVars>>

\* ------------------------------------------------------------ environment
\* the request context is cancelled (chat_test.go:163-169)
Cancel ==
    /\ Alive /\ ~ctxCancelled
    /\ ctxCancelled' = TRUE
    /\ UNCHANGED connBroken
    /\ UNCHANGED <<reqVars, unitVars, idVars, respVars, rlVars, hVars, streamVars, gVars, recvVars, outVars, errCh>>

\* the client connection breaks: writes fail from now on, and the server
\* cancels the request context
BreakConn ==
    /\ Alive /\ ~connBroken
    /\ connBroken' = TRUE
    /\ ctxCancelled' = TRUE
    /\ UNCHANGED <<reqVars, unitVars, idVars, respVars, rlVars, hVars, streamVars, gVars, recvVars, outVars, errCh>>

handlerVars == <<reqVars, hVars, streamVars, gVars, recvVars, outVars, envVars, errCh,
                 idVars, respVars, unitVars>>

\* ------------------------------------------------------------ tryConsume
\* part_001 is middleware/ratelimit.go.  ratelimit.go:29: rl.mu.Lock()
RLLock_NoMutex(c) ==
    /\ rlpc[c] = "lock"
    /\ mu' = c
    /\ rlPre' = [rlPre EXCEPT ![c] = [tokens |-> tokens, capacity |-> capacity,
                                      refillRate |-> refillRate,
                                      lastTimestamp |-> lastTimestamp]]
    /\ rlpc' = [rlpc EXCEPT ![c] = "refill"]
    /\ UNCHANGED <<bucketVars, now, rlNow, rlRes, rlCode, rlCalls, hist>>
    /\ UNCHANGED handlerVars

RLLock(c) ==
    /\ rlpc[c] = "lock"
    /\ mu = 0
    /\ mu' = c
    /\ rlPre' = [rlPre EXCEPT ![c] = [tokens |-> tokens, capacity |-> capacity,
                                      refillRate |-> refillRate,
                                      lastTimestamp |-> lastTimestamp]]
    /\ rlpc' = [rlpc EXCEPT ![c] = "refill"]
    /\ UNCHANGED <<bucketVars, now, rlNow, rlRes, rlCode, rlCalls, hist>>
    /\ UNCHANGED handlerVars

RLRefill_NoClamp(c) ==
    /\ rlpc[c] = "refill"
    /\ rlNow' = [rlNow EXCEPT ![c] = now]
    /\ tokens' = Fl(flt.mant, tokens + Fl(flt.mant, Fl(flt.mant, now - lastTimestamp) * refillRate))
    /\ lastTimestamp' = now
    /\ rlpc' = [rlpc EXCEPT ![c] = "check"]
    /\ UNCHANGED <<capacity, refillRate, flt, mu, now, rlRes, rlPre, rlCode, rlCalls, hist>>
    /\ UNCHANGED handlerVars

RLRefill_StaleTimestamp(c) ==
    /\ rlpc[c] = "refill"
    /\ rlNow' = [rlNow EXCEPT ![c] = now]
    /\ tokens' = Refill(flt, tokens, capacity, refillRate, now - lastTimestamp)
    /\ lastTimestamp' = lastTimestamp
    /\ rlpc' = [rlpc EXCEPT ![c] = "check"]
    /\ UNCHANGED <<capacity, refillRate, flt, mu, now, rlRes, rlPre, rlCode, rlCalls, hist>>
    /\ UNCHANGED handlerVars

RLRefill_DropFraction(c) ==
    /\ rlpc[c] = "refill"
    /\ rlNow' = [rlNow EXCEPT ![c] = now]
    /\ tokens' = Refill(flt, 0, capacity, refillRate, now - lastTimestamp)
    /\ lastTimestamp' = now
    /\ rlpc' = [rlpc EXCEPT ![c] = "check"]
    /\ UNCHANGED <<capacity, refillRate, flt, mu, now, rlRes, rlPre, rlCode, rlCalls, hist>>
    /\ UNCHANGED handlerVars

RLRefill_ClampToOne(c) ==
    /\ rlpc[c] = "refill"
    /\ rlNow' = [rlNow EXCEPT ![c] = now]
    /\ tokens' = Refill(flt, tokens, IF capacity < flt.one THEN flt.one ELSE capacity,
                        refillRate, now - lastTimestamp)
    /\ lastTimestamp' = now
    /\ rlpc' = [rlpc EXCEPT ![c] = "check"]
    /\ UNCHANGED <<capacity, refillRate, flt, mu, now, rlRes, rlPre, rlCode, rlCalls, hist>>
    /\ UNCHANGED handlerVars

\* ratelimit.go:32-35: the lazy refill
RLRefill(c) ==
    /\ rlpc[c] = "refill"
    /\ rlNow' = [rlNow EXCEPT ![c] = now]
    /\ tokens' = Refill(flt, tokens, capacity, refillRate, now - lastTimestamp)
    /\ lastTimestamp' = now
    /\ rlpc' = [rlpc EXCEPT ![c] = "check"]
    /\ UNCHANGED <<capacity, refillRate, flt, mu, now, rlRes, rlPre, rlCode, rlCalls, hist>>
    /\ UNCHANGED handlerVars

RLCheck_Strict(c) ==
    /\ rlpc[c] = "check"
    /\ IF tokens > flt.one
       THEN /\ rlpc' = [rlpc EXCEPT ![c] = "dec"]
            /\ UNCHANGED <<rlRes, hist>>
       ELSE /\ rlpc' = [rlpc EXCEPT ![c] = "unlock"]
            /\ rlRes' = [rlRes EXCEPT ![c] = FALSE]
            /\ hist' = Append(hist, [t |-> rlNow[c], avail |-> tokens, ok |-> FALSE,
                                  pre |-> rlPre[c].tokens, pt |-> rlPre[c].lastTimestamp])
    /\ UNCHANGED <<bucketVars, mu, now, rlNow, rlPre, rlCode, rlCalls>>
    /\ UNCHANGED handlerVars

\* ratelimit.go:37 and 41: if rl.tokens >= 1, else return false
RLCheck(c) ==
    /\ rlpc[c] = "check"
    /\ IF tokens >= flt.one
       THEN /\ rlpc' = [rlpc EXCEPT ![c] = "dec"]
            /\ UNCHANGED <<rlRes, hist>>
       ELSE /\ rlpc' = [rlpc EXCEPT ![c] = "unlock"]
            /\ rlRes' = [rlRes EXCEPT ![c] = FALSE]
            /\ hist' = Append(hist, [t |-> rlNow[c], avail |-> tokens, ok |-> FALSE,
                                  pre |-> rlPre[c].tokens, pt |-> rlPre[c].lastTimestamp])
    /\ UNCHANGED <<bucketVars, mu, now, rlNow, rlPre, rlCode, rlCalls>>
    /\ UNCHANGED handlerVars

RLDec_NoDecrement(c) ==
    /\ rlpc[c] = "dec"
    /\ tokens' = tokens
    /\ rlRes' = [rlRes EXCEPT ![c] = TRUE]
    /\ hist' = Append(hist, [t |-> rlNow[c], avail |-> tokens, ok |-> TRUE,
                              pre |-> rlPre[c].tokens, pt |-> rlPre[c].lastTimestamp])
    /\ rlpc' = [rlpc EXCEPT ![c] = "unlock"]
    /\ UNCHANGED <<capacity, refillRate, flt, lastTimestamp, mu, now, rlNow, rlPre, rlCode, rlCalls>>
    /\ UNCHANGED handlerVars

\* ratelimit.go:38-39: rl.tokens--; return true
RLDec(c) ==
    /\ rlpc[c] = "dec"
    /\ tokens' = tokens - flt.one
    /\ rlRes' = [rlRes EXCEPT ![c] = TRUE]
    /\ hist' = Append(hist, [t |-> rlNow[c], avail |-> tokens, ok |-> TRUE,
                              pre |-> rlPre[c].tokens, pt |-> rlPre[c].lastTimestamp])
    /\ rlpc' = [rlpc EXCEPT ![c] = "unlock"]
    /\ UNCHANGED <<capacity, refillRate, flt, lastTimestamp, mu, now, rlNow, rlPre, rlCode, rlCalls>>
    /\ UNCHANGED handlerVars

\* ratelimit.go:30: defer rl.mu.Unlock()
RLUnlock(c) ==
    /\ rlpc[c] = "unlock"
    /\ mu' = 0
    /\ rlpc' = [rlpc EXCEPT ![c] = "done"]
    /\ UNCHANGED <<bucketVars, now, rlNow, rlRes, rlPre, rlCode, rlCalls, hist>>
    /\ UNCHANGED handlerVars

\* ratelimit.go:28-42
tryConsume(c) ==
    \/ RLLock(c)
    \/ RLRefill(c)
    \/ RLCheck(c)
    \/ RLDec(c)
    \/ RLUnlock(c)

\* ----------------------------------------------- middleware of one request
\* middleware.go:56-79: Logger takes the request id from the X-Request-ID
\* header or generates one, stores it in the context, echoes it in the
\* response header and passes a wrapping responseWriter on.  SecurityHeaders
\* and CORS (middleware.go:86-113) only add headers to a POST.
MWLogger ==
    /\ Alive /\ hpc = "logger"
    /\ requestID' = IF reqHeaderID = "" THEN NewUUID ELSE reqHeaderID
    /\ respHeaderID' = requestID'
    /\ hpc' = "cors"
    /\ UNCHANGED <<hchunk, valErr, selCase, selErr, selReady>>
    /\ UNCHANGED <<reqVars, unitVars, respVars, rlVars, streamVars, gVars, recvVars, outVars, envVars, errCh>>

MWCORS_PassThrough ==
    /\ Alive /\ hpc = "cors"
    /\ corsHeaders' = TRUE
    /\ respStatus' = respStatus
    /\ hpc' = "ratelimit"
    /\ UNCHANGED <<hchunk, valErr, selCase, selErr, selReady, contentType, respErrType, plainBody>>
    /\ UNCHANGED <<reqVars, unitVars, idVars, rlVars, streamVars, gVars, recvVars, outVars, envVars, errCh>>

\* middleware.go:99-113: CORS sets its headers and answers a preflight
\* itself, with 200 and without calling the next handler
MWCORS ==
    /\ Alive /\ hpc = "cors"
    /\ corsHeaders' = TRUE
    /\ IF route = "OPTIONS /chat"
       THEN /\ respStatus' = 200
            /\ hpc' = "preflight"
       ELSE /\ respStatus' = respStatus
            /\ hpc' = "ratelimit"
    /\ UNCHANGED <<hchunk, valErr, selCase, selErr, selReady, contentType, respErrType, plainBody>>
    /\ UNCHANGED <<reqVars, unitVars, idVars, rlVars, streamVars, gVars, recvVars, outVars, envVars, errCh>>

\* ratelimit.go:54: the request, caller 1 of the limiter, calls tryConsume
MWRateLimitEnter ==
    /\ Alive /\ hpc = "ratelimit"
    /\ rlpc[1] = "idle"
    /\ rlpc' = [rlpc EXCEPT ![1] = "lock"]
    /\ rlCalls' = rlCalls + 1
    /\ hpc' = "consuming"
    /\ UNCHANGED <<hchunk, valErr, selCase, selErr, selReady>>
    /\ UNCHANGED <<bucketVars, mu, now, rlNow, rlRes, rlPre, rlCode, hist>>
    /\ UNCHANGED <<reqVars, unitVars, idVars, respVars, streamVars, gVars, recvVars, outVars, envVars, errCh>>

MWRateLimitReturn_FallThrough ==
    /\ Alive /\ hpc = "consuming"
    /\ rlpc[1] = "done"
    /\ rlpc' = [rlpc EXCEPT ![1] = "idle"]
    /\ IF rlRes[1]
       THEN /\ hpc' = IF route = "GET /health" THEN "health" ELSE "start"
            /\ UNCHANGED <<respVars, rlCode>>
       ELSE /\ contentType' = "application/json"
            /\ respStatus' = 429
            /\ respErrType' = "too_many_requests"
            /\ rlCode' = [rlCode EXCEPT ![1] = 429]
            /\ hpc' = "start"
            /\ UNCHANGED hdrVars
    /\ UNCHANGED <<hchunk, valErr, selCase, selErr, selReady>>
    /\ UNCHANGED <<bucketVars, mu, now, rlNow, rlRes, rlPre, rlCalls, hist>>
    /\ UNCHANGED <<reqVars, unitVars, idVars, streamVars, gVars, recvVars, outVars, envVars, errCh>>

\* ratelimit.go:54-58 with errors.go:35-39 and 55-57: a denied request gets
\* the JSON error and the next handler, HandleChat, is not called
MWRateLimitReturn ==
    /\ Alive /\ hpc = "consuming"
    /\ rlpc[1] = "done"
    /\ rlpc' = [rlpc EXCEPT ![1] = "idle"]
    /\ IF rlRes[1]
       THEN /\ hpc' = IF route = "GET /health" THEN "health" ELSE "start"
            /\ UNCHANGED <<respVars, rlCode>>
       ELSE /\ contentType' = "application/json"
            /\ respStatus' = 429
            /\ respErrType' = "too_many_requests"
            /\ rlCode' = [rlCode EXCEPT ![1] = 429]
            /\ hpc' = "denied"
            /\ UNCHANGED hdrVars
    /\ UNCHANGED <<hchunk, valErr, selCase, selErr, selReady>>
    /\ UNCHANGED <<bucketVars, mu, now, rlNow, rlRes, rlPre, rlCalls, hist>>
    /\ UNCHANGED <<reqVars, unitVars, idVars, streamVars, gVars, recvVars, outVars, envVars, errCh>>

\* main.go:86-89: the health handler
HHealth ==
    /\ Alive /\ hpc = "health"
    /\ respStatus' = ImplicitStatus(200)
    /\ plainBody' = "OK"
    /\ hpc' = "served"
    /\ UNCHANGED <<hchunk, valErr, selCase, selErr, selReady, contentType, respErrType, corsHeaders>>
    /\ UNCHANGED <<reqVars, unitVars, idVars, rlVars, streamVars, gVars, recvVars, outVars, envVars, errCh>>

Next ==
    \/ MWLogger
    \/ MWCORS
    \/ MWRateLimitEnter
    \/ tryConsume(1)
    \/ MWRateLimitReturn
    \/ HHealth
    \/ HStart
    \/ HDecode
    \/ HValidate
    \/ HCreate
    \/ HSelectCtx
    \/ HSelectErr
    \/ HWrite
    \/ HFlush
    \/ HReturn
    \/ GRecv
    \/ GWrite
    \/ GFlush
    \/ GSend
    \/ Cancel
    \/ BreakConn

Spec == Init /\ [][Next]_vars

\* no request is being handled: the variables of HandleChat keep one value
IdleRequest ==
    /\ flusherOK = TRUE
    /\ reqBody = [ok |-> TRUE, prompt |-> <<"a">>]
    /\ entry = "router"
    /\ reqHeaderID = ""
    /\ requestID = ""
    /\ respHeaderID = ""
    /\ respStatus = 0
    /\ contentType = ""
    /\ respErrType = ""
    /\ corsHeaders = FALSE
    /\ plainBody = ""
    /\ createRes = NotCreated
    /\ selReady = NotSelected
    /\ route = "POST /chat"
    /\ hpc = "unused"
    /\ hchunk = NoChunk
    /\ valErr = "unset"
    /\ selCase = "none"
    /\ selErr = "none"
    /\ createCalls = 0
    /\ streamOpened = FALSE
    /\ closeCount = 0
    /\ gpc = "none"
    /\ gchunk = NoChunk
    /\ gerr = "none"
    /\ errCh = <<>>
    /\ received = <<>>
    /\ recvEnd = "none"
    /\ recvCalls = 0
    /\ events = <<>>
    /\ body = <<>>
    /\ flushed = 0
    /\ ctxCancelled = FALSE
    /\ connBroken = FALSE

\* ------------------------------------------- the rate limiter on its own
\* TestRateLimit (part_002, middleware_test.go:99-128): requests through
\* RateLimit(limiter)(handler) with a handler that answers 200, here from
\* NCallers concurrent clients and for every rate in RateNums.  HandleChat
\* does not take part.
InitRL ==
    /\ InitCallers
    /\ \E n \in RateNums :
         LET rl == NewRateLimiter(n, 0) IN
           /\ tokens = rl.tokens
           /\ capacity = rl.capacity
           /\ refillRate = rl.refillRate
           /\ lastTimestamp = rl.lastTimestamp
    /\ flt = Float64
    /\ IdleRequest
    /\ IdleUnits

\* The limiter computed in the scaled-down float: a tick is 1/flt.one second,
\* so that a rate of r tokens per second is r units per tick; the bucket is
\* full or was drained by earlier requests.
InitFloat ==
    /\ InitCallers
    /\ flt \in ScaledFloats
    /\ \E r \in 1..MaxScaledRate :
         /\ capacity = r * flt.one
         /\ refillRate = r
         /\ tokens \in {capacity - k * flt.one : k \in 0..r}
    /\ lastTimestamp = 0
    /\ IdleRequest
    /\ IdleUnits

\* ratelimit.go:53-54: a client's request reaches the middleware
RateLimitEnter(c) ==
    /\ rlpc[c] = "idle"
    /\ rlCalls < MaxCalls
    /\ rlpc' = [rlpc EXCEPT ![c] = "lock"]
    /\ rlCalls' = rlCalls + 1
    /\ UNCHANGED <<bucketVars, mu, now, rlNow, rlRes, rlPre, rlCode, hist>>
    /\ UNCHANGED handlerVars

\* ratelimit.go:54-58 with middleware_test.go:100-102: 429 when denied,
\* else the handler's 200
RateLimitReturn(c) ==
    /\ rlpc[c] = "done"
    /\ rlpc' = [rlpc EXCEPT ![c] = "idle"]
    /\ rlCode' = [rlCode EXCEPT ![c] = IF rlRes[c] THEN 200 ELSE 429]
    /\ UNCHANGED <<bucketVars, mu, now, rlNow, rlRes, rlPre, rlCalls, hist>>
    /\ UNCHANGED handlerVars

\* time passes (middleware_test.go:124: time.Sleep)
Tick ==
    /\ now < MaxTime
    /\ now' = now + 1
    /\ UNCHANGED <<bucketVars, mu, rlpc, rlNow, rlRes, rlPre, rlCode, rlCalls, hist>>
    /\ UNCHANGED handlerVars

NextRL ==
    \/ \E c \in Callers : RateLimitEnter(c)
    \/ \E c \in Callers : tryConsume(c)
    \/ \E c \in Callers : RateLimitReturn(c)
    \/ Tick

SpecRL == InitRL /\ [][NextRL]_vars

\* the same limiter and callers, computed in the scaled-down float
SpecFloat == InitFloat /\ [][NextRL]_vars

\* ------------------------------------------- the components on their own
serverVars == <<reqVars, hVars, streamVars, gVars, recvVars, outVars, envVars, errCh,
                idVars, respVars, rlVars>>

\* the limiter of main.go:75, untouched
IdleLimiter ==
    /\ InitCallers
    /\ LET rl == NewRateLimiter(RateDen, 0) IN
         /\ tokens = rl.tokens
         /\ capacity = rl.capacity
         /\ refillRate = rl.refillRate
         /\ lastTimestamp = rl.lastTimestamp
    /\ flt = Float64

StatusCodes == {200, 400, 429}

rwWriteHeader_Always(s, code) ==
    [rw |-> [status |-> code, written |-> TRUE],
     under |-> Append(s.under, HdrCall(code))]

\* middleware.go:23-29: responseWriter.WriteHeader, on the pair of the
\* writer's fields and the calls it has forwarded
rwWriteHeader(s, code) ==
    IF ~s.rw.written
    THEN [rw |-> [status |-> code, written |-> TRUE],
          under |-> Append(s.under, HdrCall(code))]
    ELSE s

\* middleware.go:31-36: responseWriter.Write
rwWrite(s) ==
    LET s1 == IF ~s.rw.written THEN rwWriteHeader(s, 200) ELSE s
    IN  [rw |-> s1.rw, under |-> Append(s1.under, WriteCall)]

\* TestResponseWriter (middleware_test.go:130-150): a responseWriter as
\* Logger builds it, or with the zero status of the test's second writer
InitRW ==
    /\ IdleRequest
    /\ IdleLimiter
    /\ rw \in {LoggerWriter, [status |-> 0, written |-> FALSE]}
    /\ rwUnder = <<>>
    /\ rwCalls = <<>>
    /\ stream = NewStream("streamWrapper", "nil")
    /\ stCalls = <<>>

RWWriteHeader ==
    /\ Len(rwCalls) < MaxRWCalls
    /\ \E code \in StatusCodes :
         LET s == rwWriteHeader([rw |-> rw, under |-> rwUnder], code) IN
           /\ rw' = s.rw
           /\ rwUnder' = s.under
           /\ rwCalls' = Append(rwCalls, HdrCall(code))
    /\ UNCHANGED <<serverVars, stVars>>

RWWrite ==
    /\ Len(rwCalls) < MaxRWCalls
    /\ LET s == rwWrite([rw |-> rw, under |-> rwUnder]) IN
         /\ rw' = s.rw
         /\ rwUnder' = s.under
    /\ rwCalls' = Append(rwCalls, WriteCall)
    /\ UNCHANGED <<serverVars, stVars>>

NextRW == RWWriteHeader \/ RWWrite

SpecRW == InitRW /\ [][NextRW]_vars

Close_Toggle(s) == [s EXCEPT !.closed = ~s.closed]

\* main.go:43-45, chat_test.go:59-61, main_test.go:29-31: Close marks the
\* stream closed; the wrapper's Close closes the provider's stream
Close(s) == [s EXCEPT !.closed = TRUE]

\* main.go:29-41, chat_test.go:30-57, main_test.go:25-27: the results Recv
\* may give on stream s, each with the stream it leaves
RecvResults(s) ==
    CASE s.impl = "handlers.mockStream" ->
            IF s.closed THEN {[res |-> "Canceled", post |-> s]}
            ELSE IF s.err # "nil" THEN {[res |-> s.err, post |-> s]}
            ELSE IF s.ctxDone THEN {[res |-> "Canceled", post |-> [s EXCEPT !.closed = TRUE]]}
            ELSE {[res |-> "test", post |-> s]}
      [] s.impl = "main.mockStream" ->
            {[res |-> "nochoice", post |-> s]}
      [] s.impl = "streamWrapper" ->
            IF s.closed THEN {[res |-> e, post |-> s] : e \in UpstreamErrs}
            ELSE {[res |-> e, post |-> s] : e \in {"a", "EOF"} \cup UpstreamErrs}

\* a stream as CreateChatCompletionStream returns it (main.go:47-53,
\* chat_test.go:68-75, main_test.go:37-42)
InitStream ==
    /\ IdleRequest
    /\ IdleLimiter
    /\ rw = LoggerWriter
    /\ rwUnder = <<>>
    /\ rwCalls = <<>>
    /\ \E impl \in StreamImpls :
         \E err \in IF impl = "handlers.mockStream" THEN {"nil"} \cup UpstreamErrs ELSE {"nil"} :
            stream = NewStream(impl, err)
    /\ stCalls = <<>>

StRecv ==
    /\ Len(stCalls) < MaxStreamCalls
    /\ \E r \in RecvResults(stream) :
         /\ stream' = r.post
         /\ stCalls' = Append(stCalls, [op |-> "Recv", res |-> r.res, pre |-> stream, post |-> r.post])
    /\ UNCHANGED <<serverVars, rwVars>>

StClose ==
    /\ Len(stCalls) < MaxStreamCalls
    /\ stream' = Close(stream)
    /\ stCalls' = Append(stCalls, [op |-> "Close", res |-> "returned", pre |-> stream, post |-> stream'])
    /\ UNCHANGED <<serverVars, rwVars>>

\* the context the stream was created with is cancelled
StCancel ==
    /\ ~stream.ctxDone
    /\ stream' = [stream EXCEPT !.ctxDone = TRUE]
    /\ UNCHANGED <<stCalls, serverVars, rwVars>>

NextStream == StRecv \/ StClose \/ StCancel

SpecStream == InitStream /\ [][NextStream]_vars

\* -------------------------------------------- the handler task scheduled
\* The Go scheduler runs the handler goroutine whenever it can take a step.
\* Nothing is assumed of the receive goroutine, whose Recv may block, nor of
\* the environment.
SpecFair ==
    /\ Spec
    /\ WF_vars(HSelectCtx)
    /\ WF_vars(HSelectErr)
    /\ WF_vars(HWrite)
    /\ WF_vars(HFlush)
    /\ WF_vars(HReturn)

\* ------------------------------------------- the receive goroutine scheduled
\* HandleChat called directly, as in chat_test.go:156-176
InitChat == Init /\ entry = "direct"

NextChat ==
    \/ HStart
    \/ HDecode
    \/ HValidate
    \/ HCreate
    \/ HSelectCtx
    \/ HSelectErr
    \/ HWrite
    \/ HFlush
    \/ HReturn
    \/ GRecv
    \/ GWrite
    \/ GFlush
    \/ GSend
    \/ Cancel
    \/ BreakConn

\* a Recv made once the context is cancelled or the stream is closed that
\* returns an error, as mockStream.Recv does (chat_test.go:30-57)
GRecvFails ==
    /\ ctxCancelled \/ closeCount > 0
    /\ GRecv
    /\ recvEnd' # "none"

\* The Go scheduler runs the receive goroutine whenever it can take a step
\* of its own, and of the Recv calls made on a cancelled or closed stream one
\* eventually returns an error.  Nothing is assumed of the handler, of a
\* Recv on a live stream or of the environment.
SpecChatFair ==
    /\ InitChat /\ [][NextChat]_vars
    /\ WF_vars(GWrite)
    /\ WF_vars(GFlush)
    /\ WF_vars(GSend)
    /\ SF_vars(GRecvFails)

\* ------------------------------------------------------------ type check
TypeOK ==
    /\ hpc \in {"logger", "cors", "preflight", "health", "served", "unused", "ratelimit", "consuming", "denied", "start", "decode", "validate", "create", "select", "write", "flush",
                "return", "returned", "panicked"}
    /\ gpc \in {"none", "recv", "write", "flush", "send", "exited", "crashed"}
    /\ Len(errCh) <= ErrChCap
    /\ closeCount \in 0..2
    /\ createCalls \in 0..1
    /\ mu \in {0} \cup Callers
    /\ respStatus \in {0, 200, 429}

\* ------------------------------------------------------ shared vocabulary
IsTerminal(e) == e.type \in {"done", "error"}
Terminals(s) == SelectSeq(s, IsTerminal)
DoneChunk == Chunk("done", "")
DisconnectedChunk == Chunk("error", DisconnectedMsg)
CreateFailedChunk == Chunk("error", CreateFailedMsg)

RECURSIVE ContentEvents(_)
\* the content events a sequence of fragment texts calls for
ContentEvents(frs) ==
    IF frs = <<>> THEN <<>>
    ELSE IF Head(frs) = "" THEN ContentEvents(Tail(frs))
    ELSE <<Chunk("content", Head(frs))>> \o ContentEvents(Tail(frs))

CreateFailed == createCalls > 0 /\ ~streamOpened

\* ---------------------------------------------------------------- claims
\* C1: for a request that passed validation the first event written is
\* `connected` with empty content, and it is written before
\* CreateChatCompletionStream is called.
C1_ConnectedFirst ==
    valErr = Nil =>
        /\ createCalls > 0 => events # <<>>
        /\ events # <<>> => events[1] = Chunk("connected", "")

\* C2: once a terminal event (done or error) is written to the response, no
\* further event is written: a terminal event is the last one of the body.
C2_NothingAfterTerminal ==
    \A i \in 1..Len(body) : IsTerminal(body[i]) => i = Len(body)

\* C3: when HandleChat has returned for a request whose stream was opened,
\* exactly one terminal event has been emitted.
C3_ExactlyOneTerminal ==
    (hpc = "returned" /\ streamOpened) => Len(Terminals(events)) = 1

\* C4: Close is invoked exactly once when the stream was opened, on every exit
\* path and by the returning handler only, and never when opening failed.
C4_CloseExactlyOnce ==
    /\ closeCount <= 1
    /\ ~streamOpened => closeCount = 0
    /\ (hpc = "returned" /\ streamOpened) => closeCount = 1
    /\ closeCount = 1 => hpc = "returned"

C4_Witness ==
    /\ hpc = "returned" /\ streamOpened /\ closeCount = 1
    /\ selCase = "ctx"

\* C5: when the context is cancelled and Recv has reached neither
\* end-of-stream nor a receive error, exactly one error event "Client
\* disconnected" is emitted, it is the last event, the stream is closed once,
\* and with no fragment received it is the only event.
C5_CancelYieldsOneDisconnect ==
    (hpc = "returned" /\ streamOpened /\ ctxCancelled /\ recvEnd \notin {"EOF"} \cup UpstreamErrs) =>
        /\ Terminals(events) = <<DisconnectedChunk>>
        /\ events[Len(events)] = DisconnectedChunk
        /\ closeCount = 1
        /\ received = <<>> => events = <<DisconnectedChunk>>

\* C6: without cancellation, fragments followed by end-of-stream give one
\* content event per non-empty fragment, in order and with its text, none for
\* an empty fragment, then exactly one done event with empty content.
C6_FragmentsThenDone ==
    (hpc = "returned" /\ recvEnd = "EOF" /\ ~ctxCancelled) =>
        /\ events = ContentEvents(received) \o <<DoneChunk>>
        /\ body = events

C6_Witness ==
    /\ hpc = "returned" /\ recvEnd = "EOF" /\ ~ctxCancelled
    /\ received = <<"a", "", "b">>
    /\ events = <<Chunk("content", "a"), Chunk("content", "b"), DoneChunk>>

\* C7: when CreateChatCompletionStream fails the handler emits exactly one
\* error event "Failed to create chat completion stream", no content or done
\* event, never calls Recv, and returns.
C7_CreateFailure ==
    CreateFailed =>
        /\ recvCalls = 0 /\ gpc = "none"
        /\ hpc \in {"write", "flush", "return", "returned"}
        /\ hpc = "write" => events = <<>>
        /\ hpc # "write" => events = <<CreateFailedChunk>>

C7_Witness ==
    CreateFailed /\ hpc = "returned" /\ events = <<CreateFailedChunk>>

\* C8: when Recv returns an error that is neither end-of-stream nor
\* cancellation and the context is not cancelled, exactly one error event
\* with the generic message is emitted, last, no done event is emitted, and
\* no further Recv is issued.
C8_ReceiveError ==
    /\ recvEnd \in UpstreamErrs => gpc \in {"send", "exited"}
    /\ (recvEnd \in UpstreamErrs /\ ~ctxCancelled /\ hpc = "returned") =>
          /\ Terminals(events) = <<CreateFailedChunk>>
          /\ events[Len(events)] = CreateFailedChunk
          /\ events = ContentEvents(received) \o <<CreateFailedChunk>>

C8_Witness ==
    /\ recvEnd \in UpstreamErrs /\ ~ctxCancelled /\ hpc = "returned"
    /\ received = <<"a">>
    /\ recvCalls = 2

AllSpace(p) == \A i \in 1..Len(p) : p[i] \in Whitespace

\* C9 as stated: exactly the empty prompt is rejected as empty, exactly the
\* prompts longer than the maximum as too long, and every non-empty prompt of
\* length at most the maximum is accepted.
C9_Original ==
    valErr # "unset" =>
        /\ reqBody.prompt = <<>> => valErr = EmptyMsg
        /\ ByteLen(reqBody.prompt) > MaxPromptLength => valErr = ExceedsMsg(MaxPromptLength)
        /\ (reqBody.prompt # <<>> /\ ByteLen(reqBody.prompt) <= MaxPromptLength) => valErr = Nil

\* C9 amended: a prompt that is empty or consists of white space only is
\* rejected with "prompt cannot be empty" whatever its length; any other
\* prompt longer than N bytes is rejected with "prompt exceeds maximum length
\* of N characters"; every other prompt, one of exactly N bytes included, is
\* accepted.
C9_Validate ==
    valErr # "unset" =>
        /\ AllSpace(reqBody.prompt) => valErr = EmptyMsg
        /\ (~AllSpace(reqBody.prompt) /\ ByteLen(reqBody.prompt) > MaxPromptLength) =>
              valErr = ExceedsMsg(MaxPromptLength)
        /\ (~AllSpace(reqBody.prompt) /\ ByteLen(reqBody.prompt) <= MaxPromptLength) =>
              valErr = Nil

C9_Witness ==
    /\ valErr = EmptyMsg
    /\ reqBody.prompt # <<>>
    /\ hpc = "returned"

Rejected ==
    \/ ~reqBody.ok
    \/ reqBody.prompt = <<>>
    \/ ByteLen(reqBody.prompt) > MaxPromptLength

\* C10: a request with a malformed body, an empty prompt or a prompt longer
\* than the maximum gets exactly one event, of type error, and
\* CreateChatCompletionStream is never called for it.
C10_RejectedBeforeUpstream ==
    Rejected =>
        /\ createCalls = 0
        /\ Len(events) <= 1
        /\ \A i \in 1..Len(events) : events[i].type = "error"
        /\ hpc = "returned" => Len(events) = 1

C10_Witness ==
    /\ flusherOK /\ reqBody.ok
    /\ ByteLen(reqBody.prompt) > MaxPromptLength
    /\ ~AllSpace(reqBody.prompt)
    /\ hpc = "returned"
    /\ events = <<Chunk("error", ExceedsMsg(MaxPromptLength))>>

Admitted(from, to) == Cardinality({i \in from..to : hist[i].ok})

\* C11: with capacity 2 the first two calls made with no time elapsed are
\* admitted, a third one at that same instant is denied and answered 429 by
\* the middleware, and a call made at least one second after the previous one
\* is admitted.
C11_CapacityTwo ==
    capacity = 2 * One =>
        /\ \A i \in 1..Len(hist) :
             /\ (i <= 2 /\ hist[i].t = 0) => hist[i].ok
             /\ (i = 3 /\ hist[i].t = 0) => ~hist[i].ok
             /\ (i > 1 /\ hist[i].t - hist[i - 1].t >= TicksPerSec) => hist[i].ok
        /\ \A c \in Callers :
             (rlpc[c] = "idle" /\ rlCode[c] # 0) => rlCode[c] = IF rlRes[c] THEN 200 ELSE 429

C11_Witness ==
    /\ capacity = 2 * One
    /\ Len(hist) = 4
    /\ hist[3].t = 0 /\ hist[1].ok /\ hist[2].ok /\ ~hist[3].ok
    /\ hist[4].t - hist[3].t >= TicksPerSec /\ hist[4].ok
    /\ \E c \in Callers : rlCode[c] = 429
    /\ \A c \in Callers : rlpc[c] = "idle"

\* C12: in every reachable state of the limiter 0 <= tokens <= capacity.
C12_TokensInRange ==
    0 <= tokens /\ tokens <= capacity

C12_Witness ==
    /\ tokens = capacity /\ capacity >= One
    /\ lastTimestamp > 0
    /\ \E i \in 1..Len(hist) : hist[i].ok
    /\ (lastTimestamp - hist[Len(hist)].t) * refillRate > capacity

Refilled(pre, t) ==
    IF pre.tokens + (t - pre.lastTimestamp) * pre.refillRate > pre.capacity
    THEN pre.capacity
    ELSE pre.tokens + (t - pre.lastTimestamp) * pre.refillRate

\* C13: a tryConsume call leaves the refill timestamp at its `now`, and tokens
\* at the refilled value min(capacity, tokens + elapsed * rate) less exactly
\* one token when that value is at least 1 (result true), at the refilled
\* value itself otherwise (result false); capacity and rate keep their values.
C13_TryConsumeEffect ==
    \A c \in Callers :
        rlpc[c] = "unlock" =>
            LET r == Refilled(rlPre[c], rlNow[c]) IN
              /\ lastTimestamp = rlNow[c]
              /\ rlRes[c] = (r >= One)
              /\ tokens = IF r >= One THEN r - One ELSE r
              /\ capacity = rlPre[c].capacity
              /\ refillRate = rlPre[c].refillRate
              /\ capacity = refillRate * TicksPerSec

C13_Witness ==
    \E c \in Callers :
        /\ rlpc[c] = "unlock"
        /\ ~rlRes[c]
        /\ rlNow[c] > rlPre[c].lastTimestamp
        /\ tokens > rlPre[c].tokens
        /\ tokens < capacity

\* C14: among the calls decided at one instant, the first of which found k
\* tokens after its refill, exactly min(n, floor(k)) of the first n are
\* admitted, whatever the interleaving of the callers, and tokens is never
\* negative.
C14_AtomicConsume ==
    /\ tokens >= 0
    /\ \A s \in 1..Len(hist) :
         (s = 1 \/ hist[s - 1].t < hist[s].t) =>
            \A e \in s..Len(hist) :
               hist[e].t = hist[s].t =>
                  Admitted(s, e) = min(e - s + 1, hist[s].avail \div One)

C14_Witness ==
    /\ rlpc[1] = "done" /\ rlpc[2] = "done"
    /\ Len(hist) = 2
    /\ hist[1].t = hist[2].t
    /\ hist[1].avail \div One = 1
    /\ hist[1].ok /\ ~hist[2].ok

\* C15: for a limiter of rate r > 0, a call made at least 1/r seconds after a
\* denied call, with no call in between, is admitted.
C15_AdmittedAfterWait ==
    refillRate > 0 =>
        \A i \in 1..(Len(hist) - 1) :
            \A j \in (i + 1)..Len(hist) :
                (/\ ~hist[i].ok
                 /\ (hist[j].t - hist[i].t) * refillRate >= One
                 /\ Admitted(i + 1, j - 1) = 0) => hist[j].ok

\* C16: a request that tryConsume denied is answered by RateLimit with the
\* JSON error 429 too_many_requests; HandleChat is not invoked for it: no
\* streaming header, no SSE event, no call of CreateChatCompletionStream.
C16_DeniedBeforeHandler ==
    (hist # <<>> /\ ~hist[1].ok) =>
        /\ hpc \in {"consuming", "denied"}
        /\ hpc = "denied" =>
              /\ respStatus = 429
              /\ respErrType = "too_many_requests"
              /\ contentType = "application/json"
        /\ contentType # "text/event-stream"
        /\ events = <<>> /\ body = <<>>
        /\ createCalls = 0 /\ gpc = "none"

C16_Witness ==
    /\ hist # <<>> /\ ~hist[1].ok
    /\ hpc = "denied"
    /\ respStatus = 429

\* C17: when the writer cannot flush, HandleChat reports it exactly once and
\* returns normally, before decoding, validating or opening the stream.
C17_UnsupportedReportedOnce ==
    ~IsFlusher =>
        /\ hpc # "panicked"
        /\ valErr = "unset" /\ createCalls = 0
        /\ Len(events) <= 1
        /\ hpc = "returned" => events = <<Chunk("error", UnsupportedMsg)>>

\* C18: every SSE event of a request carries the request id stored in the
\* request context; behind Logger that id is the caller's X-Request-ID when
\* one is supplied, a generated non-empty value otherwise, and it is echoed
\* in the X-Request-ID response header.
C18_RequestID ==
    /\ \A i \in 1..Len(events) : events[i].request_id = requestID
    /\ (entry = "router" /\ hpc # "logger") =>
          /\ requestID # ""
          /\ reqHeaderID # "" => requestID = reqHeaderID
          /\ respHeaderID = requestID

C18_Witness ==
    /\ entry = "router" /\ reqHeaderID = ""
    /\ hpc = "returned"
    /\ Len(events) = 3
    /\ events[1].type = "content" /\ events[3].type = "error"
    /\ requestID = NewUUID

\* C19: at most one task is inside writeSSEMessage for the request's response
\* writer: the goroutine's write-and-flush of a content event never overlaps
\* the handler's write-and-flush of a terminal event.
C19_SingleWriter ==
    ~(hpc = "flush" /\ gpc = "flush")

\* C20: once the context is cancelled while the handler waits in its select,
\* HandleChat returns and the stream is closed, whatever the receive
\* goroutine does from then on.
C20_CancelLeadsToReturn ==
    (ctxCancelled /\ hpc = "select") ~> (hpc = "returned" /\ closeCount = 1)

\* C21: when the context is already cancelled before the stream is opened,
\* no content or done event and no "Client disconnected" or "Failed to
\* create chat completion stream" error event is emitted for the request.
C21_CancelledBeforeOpen ==
    ((createCalls = 0 /\ ctxCancelled) \/ createRes.ctxDone) =>
        \A i \in 1..Len(events) :
            /\ events[i].type \notin {"content", "done"}
            /\ events[i].content \notin {DisconnectedMsg, CreateFailedMsg}

\* C22: a completed GET /health is answered 200 with body OK, whatever the
\* state of the limiter left by earlier requests.
C22_HealthAlwaysOK ==
    (route = "GET /health" /\ hpc \in {"served", "denied"}) =>
        (respStatus = 200 /\ plainBody = "OK")

\* C23: an OPTIONS request is answered by CORS with 200 and the CORS headers
\* and goes no further: tryConsume is never called for it, so no token is
\* consumed, and HandleChat is not reached.
C23_PreflightStopsAtCORS ==
    route = "OPTIONS /chat" =>
        /\ hpc \in {"logger", "cors", "preflight"}
        /\ rlCalls = 0 /\ hist = <<>> /\ mu = 0 /\ lastTimestamp = 0
        /\ contentType = "" /\ events = <<>> /\ body = <<>> /\ createCalls = 0
        /\ hpc = "preflight" => (respStatus = 200 /\ corsHeaders /\ plainBody = "")

C23_Witness ==
    /\ route = "OPTIONS /chat"
    /\ hpc = "preflight"
    /\ tokens = 0
    /\ respStatus = 200 /\ corsHeaders

\* C24: CreateChatCompletionStream is called at most once in a request, and
\* once a Recv has returned an error, io.EOF included, Recv is not called
\* again.
C24_NothingRetried ==
    /\ [](createCalls <= 1)
    /\ [][recvEnd # "none" => recvCalls' = recvCalls]_vars

C24_Witness ==
    /\ createCalls = 1
    /\ recvEnd = "EOF" /\ recvCalls = 3
    /\ gpc = "exited" /\ hpc = "returned"

FixedMessages ==
    {UnsupportedMsg, InvalidPayloadMsg, EmptyMsg, ExceedsMsg(MaxPromptLength),
     CreateFailedMsg, DisconnectedMsg}

\* C25: the events do not depend on the provider's error value: whatever error
\* CreateChatCompletionStream returned the only event is the fixed "Failed to
\* create chat completion stream" error, whatever non-EOF, non-cancellation
\* error Recv returned the handler's event for it is that same fixed error
\* after the content events of the fragments received, and every error
\* event's content is one of the fixed messages.
C25_CauseNotLeaked ==
    /\ \A i \in 1..Len(events) :
          events[i].type = "error" => events[i].content \in FixedMessages
    /\ createRes.err \in UpstreamErrs =>
          /\ hpc \in {"write", "flush", "return", "returned"}
          /\ hchunk = CreateFailedChunk
          /\ events = IF hpc = "write" THEN <<>> ELSE <<CreateFailedChunk>>
    /\ selErr \in UpstreamErrs =>
          /\ hchunk = CreateFailedChunk
          /\ events = ContentEvents(received)
                         \o (IF hpc = "write" THEN <<>> ELSE <<CreateFailedChunk>>)

C25_Witness ==
    /\ selErr = "connection reset"
    /\ hpc = "returned"
    /\ Len(events) = 2
    /\ events[2] = CreateFailedChunk

\* C29: when the select fires with io.EOF already in the completion channel
\* and the context cancelled as well, it takes the channel: the terminal event
\* is done, never "Client disconnected".
C29_EOFBeatsCancel ==
    (selReady.ctx /\ selReady.ch = <<"EOF">>) =>
        (selCase = "errCh" /\ hchunk = DoneChunk)

\* C30: when the handler has taken the channel case with a cancellation error
\* and returns without writing, a "Client disconnected" error event has been
\* emitted for the request.
C30_SwallowedMeansHandled ==
    (selCase = "errCh" /\ IsCanceled(selErr) /\ hpc \in {"return", "returned"}) =>
        \E i \in 1..Len(events) : events[i] = DisconnectedChunk

\* two consecutive decided calls, both denied
DeniedPairs == {i \in 1..(Len(hist) - 1) : ~hist[i].ok /\ ~hist[i + 1].ok}

\* the tokens a single call at the instant of call i+1 would have found, from
\* the state call i started in
SingleCall(i) ==
    Refill(flt, hist[i].pre, capacity, refillRate, hist[i + 1].t - hist[i].pt)

\* the same in exact arithmetic
ExactCall(i) ==
    min(capacity, hist[i].pre + (hist[i + 1].t - hist[i].pt) * refillRate)

\* none of the operations of the two calls, nor of the single call, rounds
NoRounding(i) ==
    LET m == flt.mant
        d1 == hist[i].t - hist[i].pt
        d2 == hist[i + 1].t - hist[i].t
    IN  \A x \in {refillRate * d1, hist[i].pre + refillRate * d1,
                  refillRate * d2, hist[i].avail + refillRate * d2,
                  refillRate * (d1 + d2), hist[i].pre + refillRate * (d1 + d2)} :
            Fl(m, x) = x

AbsDiff(a, b) == IF a < b THEN b - a ELSE a - b

IsHdrCall(c) == c.op = "WriteHeader"

\* the status the first call made on the responseWriter decides
FirstStatus == IF IsHdrCall(rwCalls[1]) THEN rwCalls[1].code ELSE 200

\* C27: the responseWriter keeps and forwards only the first status code:
\* after the first WriteHeader, or the first Write, which counts as
\* WriteHeader(200), status stays what that call set and exactly that one
\* WriteHeader has reached the wrapped writer; before any call nothing is
\* written; and written never goes back to false.
C27_FirstStatusOnly ==
    /\ [](IF rwCalls = <<>>
          THEN ~rw.written /\ rwUnder = <<>>
          ELSE /\ rw.written
               /\ rw.status = FirstStatus
               /\ SelectSeq(rwUnder, IsHdrCall) = <<HdrCall(FirstStatus)>>)
    /\ [][rw.written => rw'.written]_vars

C27_Witness ==
    /\ rwCalls = <<HdrCall(400), HdrCall(200), WriteCall>>
    /\ rw = [status |-> 400, written |-> TRUE]
    /\ rwUnder = <<HdrCall(400), WriteCall>>

\* C28: Close is idempotent on every stream implementation: a Close made
\* after an earlier Close returns and leaves the stream exactly as it found
\* it, still closed, and closing the current stream twice gives what closing
\* it once gives.
C28_CloseIdempotent ==
    /\ Close(Close(stream)) = Close(stream)
    /\ \A i \in 1..Len(stCalls) : \A j \in 1..Len(stCalls) :
          (i < j /\ stCalls[i].op = "Close" /\ stCalls[j].op = "Close") =>
             /\ stCalls[j].res = "returned"
             /\ stCalls[j].post = stCalls[j].pre
             /\ stCalls[j].post.closed

C28_Witness ==
    /\ Len(stCalls) = 3
    /\ stCalls[1].op = "Recv"
    /\ stCalls[2].op = "Close" /\ stCalls[3].op = "Close"
    /\ stream.closed

\* the values the goroutine has sent on errCh: those still in the channel and
\* the one the select received
Sent == Len(errCh) + (IF selCase = "errCh" THEN 1 ELSE 0)

\* C31: the receive goroutine sends at most one value on the completion
\* channel, it has exited exactly when it has sent, and whenever it is about
\* to send the channel has a free slot, so the send does not block, also
\* after the handler has returned through the cancellation case.
C31_OneSendNeverBlocks ==
    /\ Sent <= 1
    /\ gpc = "exited" <=> Sent = 1
    /\ gpc = "send" => Len(errCh) < ErrChCap

C31_Witness ==
    /\ hpc = "returned" /\ selCase = "ctx"
    /\ selReady.ch = <<>>
    /\ closeCount = 1
    /\ gpc = "exited"
    /\ errCh = <<"Canceled">>

\* C32: whatever Recv returns without an error, the receive loop goes on or
\* ends through the completion channel; it never ends abnormally.
C32_NoAbnormalEnd ==
    gpc # "crashed"

\* C33: once the handler has called Close on the stream, the receive
\* goroutine calls Recv no more and hands nothing more to the response
\* writer.
C33_QuietAfterClose ==
    [][closeCount > 0 => (recvCalls' = recvCalls /\ events' = events)]_vars

UnsupportedChunk == Chunk("error", UnsupportedMsg)

\* C37: behind Logger the flushing check of HandleChat succeeds whatever the
\* transport supports: the streaming-unsupported error is never prepared nor
\* emitted and no Flush panics; on a transport that cannot flush the handler
\* goes on to decode, validate and stream, and none of the Flush calls made
\* for its events reaches the transport.
C37_LoggerHidesFlusher ==
    entry = "router" =>
        /\ hchunk # UnsupportedChunk
        /\ \A i \in 1..Len(events) : events[i] # UnsupportedChunk
        /\ hpc # "panicked"
        /\ ~flusherOK => flushed = 0

C37_Witness ==
    /\ entry = "router" /\ ~flusherOK
    /\ hpc = "returned"
    /\ Len(events) = 2 /\ body = events
    /\ events[1].type = "content" /\ events[2] = DoneChunk
    /\ flushed = 0

\* the refill of decided call k in exact arithmetic, and whether the float
\* refill came out above it
ExactRefill(k) ==
    min(capacity, hist[k].pre + (hist[k].t - hist[k].pt) * refillRate)
RoundedUp(k) == hist[k].avail > ExactRefill(k)

C36_BelowOneNeverAdmits ==
    capacity < One =>
        /\ tokens < One
        /\ \A i \in 1..Len(hist) : ~hist[i].ok /\ hist[i].avail <= capacity
        /\ \A c \in Callers : ~rlRes[c]

C36_Witness ==
    /\ capacity < One /\ refillRate > 0
    /\ Len(hist) = 2
    /\ (hist[2].t - hist[1].t) * refillRate >= One
    /\ hist[2].avail = capacity
    /\ ~hist[2].ok
    /\ \E c \in Callers : rlCode[c] = 429

\* C34: once HandleChat has returned, the receive goroutine, if one was
\* started, eventually ends: it returns after its send, or goes down with
\* the process; it is not left blocked on the completion channel nor calling
\* Recv for ever.
C34_GoroutineEnds ==
    (hpc = "returned") ~> (gpc \in {"none", "exited", "crashed"})

C34_Witness ==
    /\ hpc = "returned" /\ selCase = "ctx"
    /\ closeCount = 1
    /\ gpc = "exited"
    /\ recvEnd = "Canceled"
    /\ received # <<>>

====
